---- MODULE Spec2Model ----
(***************************************************************************)
(* Model of the errhandling library: the chain nodes of package handlederr *)
(* (New, Error, PrintableError, errorTrace) and the panic/recover protocol *)
(* of package errhandling (Catch, Catch_, Return, Throw, Must, ...).       *)
(*                                                                         *)
(* Strings are sequences of tokens; fmt.Sprintf is concatenation of the    *)
(* template's literal tokens with the rendered operands.  Pointers are     *)
(* indices into heap, a sequence of cells of Go type error; 0 is nil.      *)
(***************************************************************************)
EXTENDS Integers, Sequences, FiniteSets, TLC

VARIABLES
    heap,       \* cells of type error: new(error) targets and variadic slices
    pool,       \* errors held by caller code, each with its construction history
    rendered,   \* result of the last Error() / PrintableError() call
    stack,      \* activations of functions, innermost last
    panicking,  \* the panic value in flight, or NoPanic
    status,     \* "running", "returning", "panicking", "exited", "crashed"
    results,    \* log of the finished activations, oldest first
    lastOp,     \* the last library call made by caller code
    calls,      \* arguments the side-effect callback got during lastOp
    ncalls      \* activations started so far

vars == <<heap, pool, rendered, stack, panicking, status, results, lastOp,
          calls, ncalls>>

-----------------------------------------------------------------------------
(* Bounds *)

MaxPool == 3
MaxCalls == 2

-----------------------------------------------------------------------------
(* Values of Go type error *)

NilErr == [kind |-> "nil", msg |-> <<>>, RootCause |-> 0, Cause |-> 0]

\* an error that is no chain node (errors.New(text), a runtime error, ...)
Foreign(text) == [kind |-> "foreign", msg |-> text, RootCause |-> 0, Cause |-> 0]

\* the struct Error{msg, RootCause, Cause}
Error(msg, root, cause) ==
    [kind |-> "Error", msg |-> msg, RootCause |-> root, Cause |-> cause]

IsError(e) == e.kind = "Error"

Messages == {<<>>, <<"a">>}
ForeignErrs == {Foreign(<<"boom">>)}

-----------------------------------------------------------------------------
(* package handlederr *)

\* New with the cause an outside error: a plausible slip that leaves the new node
\* its own root also when the cause is a chain node
NewOwnRoot(h, msg, cause) ==
    IF Len(cause) = 0
    THEN LET returnedErr == Len(h) + 1
             e == Error(msg, returnedErr, 0)
         IN  [heap |-> Append(h, e), err |-> e]
    ELSE LET causeAddr == Len(h) + 1
             returnedErr == Len(h) + 2
             e == Error(msg, returnedErr, causeAddr)
         IN  [heap |-> h \o <<cause[1], e>>, err |-> e]

\* New(msg, cause...): cause is the variadic slice, <<>> or <<c>>
New(h, msg, cause) ==
    IF Len(cause) = 0
    THEN LET returnedErr == Len(h) + 1
             e == Error(msg, returnedErr, 0)
         IN  [heap |-> Append(h, e), err |-> e]
    ELSE LET causeAddr == Len(h) + 1       \* &cause[0]
             returnedErr == Len(h) + 2     \* new(error)
         IN  IF IsError(cause[1])
             THEN LET e == Error(msg, cause[1].RootCause, causeAddr)
                  IN  [heap |-> h \o <<cause[1], e>>, err |-> e]
             ELSE LET e == Error(msg, returnedErr, causeAddr)
                  IN  [heap |-> h \o <<cause[1], e>>, err |-> e]

RECURSIVE Error_Error(_, _)
\* the %s verb applied to a value of type error
FmtS(h, e) ==
    CASE e.kind = "nil" -> <<"%!s(<nil>)">>
      [] e.kind = "foreign" -> e.msg
      [] OTHER -> Error_Error(h, e)

\* Error_Error with the operands of the format swapped
Error_ErrorSwapped(h, e) ==
    IF e.Cause = 0 THEN e.msg
    ELSE e.msg \o <<" -> ">> \o FmtS(h, h[e.Cause])

\* func (e Error) Error() string
Error_Error(h, e) ==
    IF e.Cause = 0 THEN e.msg
    ELSE FmtS(h, h[e.Cause]) \o <<" -> ">> \o e.msg

RECURSIVE errorTrace(_, _, _)
\* errorTrace that drops the "caused by: " prefix of a root cause
errorTraceNoPrefix(h, e, isCause) ==
    IF isCause
    THEN IF e.Cause # 0
         THEN IF IsError(h[e.Cause])
              THEN <<"\t", "caused by: ">> \o e.msg \o <<"\n">>
                       \o errorTrace(h, h[e.Cause], TRUE)
              ELSE <<"\t", "caused by: ">> \o e.msg
                       \o <<"\n", "\t", "caused by: ">> \o FmtS(h, h[e.Cause])
         ELSE <<"\t">> \o e.msg
    ELSE IF e.Cause # 0
         THEN IF IsError(h[e.Cause])
              THEN <<"\t">> \o e.msg \o <<"\n">> \o errorTrace(h, h[e.Cause], TRUE)
              ELSE <<"\t">> \o e.msg \o <<"\n", "\t", "caused by: ">>
                       \o FmtS(h, h[e.Cause])
         ELSE <<"\t">> \o e.msg

\* func (e Error) errorTrace(isCause bool) string
errorTrace(h, e, isCause) ==
    IF isCause
    THEN IF e.Cause # 0
         THEN IF IsError(h[e.Cause])
              THEN <<"\t", "caused by: ">> \o e.msg \o <<"\n">>
                       \o errorTrace(h, h[e.Cause], TRUE)
              ELSE <<"\t", "caused by: ">> \o e.msg
                       \o <<"\n", "\t", "caused by: ">> \o FmtS(h, h[e.Cause])
         ELSE <<"\t", "caused by: ">> \o e.msg
    ELSE IF e.Cause # 0
         THEN IF IsError(h[e.Cause])
              THEN <<"\t">> \o e.msg \o <<"\n">> \o errorTrace(h, h[e.Cause], TRUE)
              ELSE <<"\t">> \o e.msg \o <<"\n", "\t", "caused by: ">>
                       \o FmtS(h, h[e.Cause])
         ELSE <<"\t">> \o e.msg

\* the format "error:\n\t%s\n\nRoot cause:\n\t%s\n\nFull error trace:\n%s"
PrintableFormat(a, b, c) ==
    <<"error:", "\n", "\t">> \o a
        \o <<"\n", "\n", "Root cause:", "\n", "\t">> \o b
        \o <<"\n", "\n", "Full error trace:", "\n">> \o c

\* func (e Error) PrintableError() string
PrintableError(h, e) ==
    IF IsError(h[e.RootCause])
    THEN PrintableFormat(e.msg, h[e.RootCause].msg, errorTrace(h, e, FALSE))
    ELSE PrintableFormat(e.msg, FmtS(h, h[e.RootCause]), errorTrace(h, e, FALSE))

\* errors.New(text)
errorsNew(text) == Foreign(text)

-----------------------------------------------------------------------------
(* package errhandling: decoration *)

\* WithCause handing an outside error to New as the cause, without the inner
\* root node
WithCauseDirect(h, val, err, errMsg) ==
    IF err.kind = "nil"
    THEN [heap |-> h, val |-> val, err |-> NilErr]
    ELSE LET n == New(h, errMsg, <<err>>)
         IN  [heap |-> n.heap, val |-> val, err |-> n.err]

\* WithCause(val, err)(errMsg)
WithCause(h, val, err, errMsg) ==
    IF err.kind = "nil"
    THEN [heap |-> h, val |-> val, err |-> NilErr]
    ELSE IF IsError(err)
    THEN LET n == New(h, errMsg, <<err>>)
         IN  [heap |-> n.heap, val |-> val, err |-> n.err]
    ELSE LET inner == New(h, FmtS(h, err), <<>>)
             n == New(inner.heap, errMsg, <<inner.err>>)
         IN  [heap |-> n.heap, val |-> val, err |-> n.err]

\* WithCause_(err)(errMsg)
WithCause_(h, err, errMsg) ==
    IF err.kind = "nil"
    THEN [heap |-> h, err |-> NilErr]
    ELSE IF IsError(err)
    THEN LET n == New(h, errMsg, <<err>>)
         IN  [heap |-> n.heap, err |-> n.err]
    ELSE LET inner == New(h, FmtS(h, err), <<>>)
             n == New(inner.heap, errMsg, <<inner.err>>)
         IN  [heap |-> n.heap, err |-> n.err]

\* var ERROR_IN_CATCH = errstack.New("Catch() and CatchVal() must be ...")
ERROR_IN_CATCH_MSG == <<"Catch() and CatchVal() must be called with a non-nil pointer">>
PackageInit == New(<<>>, ERROR_IN_CATCH_MSG, <<>>)
ERROR_IN_CATCH == PackageInit.err

-----------------------------------------------------------------------------
(* package errhandling: panic values and boundaries *)

Types == {"int", "string"}
Vals == {0, 1}

NoPanic == [kind |-> "none", T |-> "", val |-> 0, err |-> NilErr]

\* valErr[T]{val, err}
valErr(T, v, e) == [kind |-> "valErr", T |-> T, val |-> v, err |-> e]

\* _err{err}
err_(e) == [kind |-> "_err", T |-> "", val |-> 0, err |-> e]

\* panic(err) on a value of type error
PanicOn(e) == [kind |-> "error", T |-> "", val |-> 0, err |-> e]

\* an activation of a function whose first statement defers a boundary
\* (boundary "none": a function or closure that defers nothing)
Frame(id, b, T, errNil) ==
    [id |-> id, boundary |-> b, T |-> T, errNil |-> errNil,
     outV |-> 0, outE |-> NilErr]

\* the boundaries caller code establishes: the value address is always that
\* of the function's named result; the error address may be nil
Boundaries ==
    [boundary : {"Catch"}, T : Types, errNil : {FALSE}]
        \cup [boundary : {"Catch"}, T : {"int"}, errNil : {TRUE}]
        \cup [boundary : {"Catch_"}, T : {""}, errNil : BOOLEAN]
        \cup [boundary : {"none"}, T : {""}, errNil : {FALSE}]

\* what a deferred call leaves: the output slots, what recover() gave it, and
\* the panic it ends with (NoPanic: it returned)
Outcome(outV, outE, recovered, p) ==
    [outV |-> outV, outE |-> outE, recovered |-> recovered, panic |-> p]

\* Catch with the nil check made only once a signal was recovered
CatchLateCheck(h, f, p) ==
    IF p # NoPanic
    THEN IF f.errNil
         THEN Outcome(f.outV, f.outE, p, PanicOn(ERROR_IN_CATCH))
         ELSE IF p.kind = "valErr" /\ p.T = f.T
         THEN Outcome(p.val, p.err, p, NoPanic)
         ELSE IF p.kind = "_err"
         THEN Outcome(f.outV, p.err, p, NoPanic)
         ELSE IF p.kind = "error" /\ IsError(p.err)
         THEN Outcome(f.outV, f.outE, p, PanicOn(errorsNew(PrintableError(h, p.err))))
         ELSE Outcome(f.outV, f.outE, p, p)
    ELSE Outcome(f.outV, f.outE, NoPanic, NoPanic)

\* Catch re-raising a chain-node panic as it is, without rendering it
CatchKeepsChain(h, f, p) ==
    IF f.errNil
    THEN Outcome(f.outV, f.outE, NoPanic, PanicOn(ERROR_IN_CATCH))
    ELSE IF p # NoPanic
    THEN IF p.kind = "valErr" /\ p.T = f.T
         THEN Outcome(p.val, p.err, p, NoPanic)
         ELSE IF p.kind = "_err"
         THEN Outcome(f.outV, p.err, p, NoPanic)
         ELSE Outcome(f.outV, f.outE, p, p)
    ELSE Outcome(f.outV, f.outE, NoPanic, NoPanic)

\* func Catch[T any](valAddr *T, errAddr *error), run as the deferred call of
\* frame f with panic p in flight (NoPanic on a normal return)
Catch(h, f, p) ==
    IF f.errNil
    THEN Outcome(f.outV, f.outE, NoPanic, PanicOn(ERROR_IN_CATCH))
    ELSE IF p # NoPanic
    THEN IF p.kind = "valErr" /\ p.T = f.T
         THEN Outcome(p.val, p.err, p, NoPanic)
         ELSE IF p.kind = "_err"
         THEN Outcome(f.outV, p.err, p, NoPanic)
         ELSE IF p.kind = "error" /\ IsError(p.err)
         THEN Outcome(f.outV, f.outE, p, PanicOn(errorsNew(PrintableError(h, p.err))))
         ELSE Outcome(f.outV, f.outE, p, p)
    ELSE Outcome(f.outV, f.outE, NoPanic, NoPanic)

\* func Catch_(errAddr *error)
Catch_(h, f, p) ==
    IF f.errNil
    THEN Outcome(f.outV, f.outE, NoPanic, PanicOn(ERROR_IN_CATCH))
    ELSE IF p # NoPanic
    THEN IF p.kind = "error" /\ IsError(p.err)
         THEN Outcome(f.outV, errorsNew(PrintableError(h, p.err)), p, p)
         ELSE Outcome(f.outV, f.outE, p, p)
    ELSE Outcome(f.outV, f.outE, NoPanic, NoPanic)

\* a function that defers nothing: a panic passes through it
NoDefer(h, f, p) == Outcome(f.outV, f.outE, NoPanic, p)

-----------------------------------------------------------------------------
(* Caller code: the state it starts in *)

NoRet == [has |-> FALSE, val |-> 0, err |-> NilErr]
Ret(v, e) == [has |-> TRUE, val |-> v, err |-> e]

NoOp ==
    [op |-> "none", T |-> "", val |-> 0, err |-> NilErr, msg |-> <<>>,
     payload |-> NoPanic, ret |-> NoRet, active |-> <<>>, mark |-> 0,
     scope |-> 0, depth |-> 0, heapLen |-> 0]

NoRender == [op |-> "none", i |-> 0, out |-> <<>>]

\* what caller code holds about an error it built: the value, the messages of
\* its chain nodes from the first one constructed, that first node, and the
\* variadic cause the first node was given
Entry(e, hist, base, leaf) == [err |-> e, hist |-> hist, base |-> base, leaf |-> leaf]

\* the error caller code built before the run: New("b", New("a"))
Built ==
    LET e1 == New(PackageInit.heap, <<"a">>, <<>>)
        e2 == New(e1.heap, <<"b">>, <<e1.err>>)
    IN  [heap |-> e2.heap,
         pool |-> <<Entry(e2.err, <<<<"a">>, <<"b">>>>, e1.err, <<>>)>>]

ErrInputs == {NilErr} \cup ForeignErrs \cup {pool[i].err : i \in DOMAIN pool}

InitCommon ==
    /\ rendered = NoRender
    /\ stack = <<Frame(0, "none", "", FALSE)>>
    /\ panicking = NoPanic
    /\ status = "running"
    /\ results = <<>>
    /\ lastOp = NoOp
    /\ calls = <<>>
    /\ ncalls = 0

Init ==
    /\ heap = Built.heap
    /\ pool = Built.pool
    /\ InitCommon

InitChain ==
    /\ heap = PackageInit.heap
    /\ pool = <<>>
    /\ InitCommon

-----------------------------------------------------------------------------
(* Caller code: calls, returns and the unwinding of the stack *)

Top == stack[Len(stack)]

\* the boundaries active on the stack, outermost first
RECURSIVE ActiveOf(_, _)
ActiveOf(st, i) ==
    IF i > Len(st) THEN <<>>
    ELSE IF st[i].boundary = "none" THEN ActiveOf(st, i + 1)
    ELSE <<[id |-> st[i].id, pos |-> i, boundary |-> st[i].boundary,
            T |-> st[i].T, errNil |-> st[i].errNil]>> \o ActiveOf(st, i + 1)

OpRecord(op, T, v, e, msg, p, ret) ==
    [op |-> op, T |-> T, val |-> v, err |-> e, msg |-> msg, payload |-> p,
     ret |-> ret, active |-> ActiveOf(stack, 1), mark |-> Len(results),
     scope |-> Top.id, depth |-> Len(stack), heapLen |-> Len(heap)]

\* a statement of the running scope executes
Statement ==
    status = "running"

\* the library call of the run, made by the running scope
LibCall ==
    /\ Statement
    /\ lastOp = NoOp

\* the call panics with p
Panics(p) ==
    /\ panicking' = p
    /\ status' = "panicking"
    /\ UNCHANGED stack

\* the call returns to the running scope
Returns ==
    UNCHANGED <<panicking, status, stack>>

\* a function whose first statement is `defer Catch(&v, &e)`, `defer Catch_(&e)`
\* or no defer at all is entered; a run nests its calls, makes one library
\* call and returns
CallFunc(b) ==
    /\ Statement
    /\ ncalls < MaxCalls
    /\ lastOp = NoOp
    /\ results = <<>>
    /\ ncalls' = ncalls + 1
    /\ stack' = Append(stack, Frame(ncalls + 1, b.boundary, b.T, b.errNil))
    /\ UNCHANGED <<heap, pool, rendered, panicking, status, results, lastOp,
                   calls>>

\* the running function reaches its return statement; its deferred call is next
FuncReturn ==
    /\ Statement
    /\ status' = "returning"
    /\ UNCHANGED <<heap, pool, rendered, stack, panicking, results, lastOp,
                   calls, ncalls>>

\* the deferred call of the top frame ended with outcome r: the frame is gone,
\* and either its caller runs on or the panic reaches the caller's deferred call
Finish(r) ==
    /\ results' = Append(results,
            [id |-> Top.id, boundary |-> Top.boundary, T |-> Top.T,
             errNil |-> Top.errNil, incoming |-> panicking,
             recovered |-> r.recovered, panic |-> r.panic,
             outV |-> r.outV, outE |-> r.outE])
    /\ stack' = SubSeq(stack, 1, Len(stack) - 1)
    /\ panicking' = r.panic
    /\ status' = IF r.panic = NoPanic
                 THEN (IF Len(stack) = 1 THEN "exited" ELSE "running")
                 ELSE (IF Len(stack) = 1 THEN "crashed" ELSE "panicking")
    /\ UNCHANGED <<heap, pool, rendered, lastOp, calls, ncalls>>

DeferredCatch ==
    /\ status \in {"returning", "panicking"}
    /\ Top.boundary = "Catch"
    /\ Finish(Catch(heap, Top, panicking))

DeferredCatch_ ==
    /\ status \in {"returning", "panicking"}
    /\ Top.boundary = "Catch_"
    /\ Finish(Catch_(heap, Top, panicking))

Unwind ==
    /\ status \in {"returning", "panicking"}
    /\ Top.boundary = "none"
    /\ Finish(NoDefer(heap, Top, panicking))

-----------------------------------------------------------------------------
(* package errhandling: the calls that raise *)

\* Return as an earlier revision had it: an error that is no chain node is
\* replaced by a fresh root node carrying its text
ReturnWrapping(T, v, e) ==
    /\ LibCall
    /\ e.kind # "nil"
    /\ LET n == IF IsError(e) THEN [heap |-> heap, err |-> e]
                ELSE New(heap, FmtS(heap, e), <<>>)
       IN  /\ heap' = n.heap
           /\ lastOp' = OpRecord("Return", T, v, e, <<>>, valErr(T, v, n.err), NoRet)
           /\ Panics(valErr(T, v, n.err))
    /\ calls' = <<>>
    /\ UNCHANGED <<pool, rendered, results, ncalls>>

\* func Return[T any](val T, err error)
Return(T, v, e) ==
    /\ LibCall
    /\ LET p == IF IsError(e) THEN valErr(T, v, e) ELSE valErr(T, v, e)
       IN  /\ lastOp' = OpRecord("Return", T, v, e, <<>>, p, NoRet)
           /\ Panics(p)
    /\ calls' = <<>>
    /\ UNCHANGED <<heap, pool, rendered, results, ncalls>>

\* func Return_(err error)
Return_(e) ==
    /\ LibCall
    /\ lastOp' = OpRecord("Return_", "", 0, e, <<>>, err_(e), NoRet)
    /\ Panics(err_(e))
    /\ calls' = <<>>
    /\ UNCHANGED <<heap, pool, rendered, results, ncalls>>

\* func Throw[T any](val T, err error) T
Throw(T, v, e) ==
    /\ LibCall
    /\ IF e # NilErr
       THEN /\ lastOp' = OpRecord("Throw", T, v, e, <<>>, valErr(T, v, e), NoRet)
            /\ Panics(valErr(T, v, e))
       ELSE /\ lastOp' = OpRecord("Throw", T, v, e, <<>>, NoPanic, Ret(v, NilErr))
            /\ Returns
    /\ calls' = <<>>
    /\ UNCHANGED <<heap, pool, rendered, results, ncalls>>

\* func Throw_(err error)
Throw_(e) ==
    /\ LibCall
    /\ IF e # NilErr
       THEN /\ lastOp' = OpRecord("Throw_", "", 0, e, <<>>, err_(e), NoRet)
            /\ Panics(err_(e))
       ELSE /\ lastOp' = OpRecord("Throw_", "", 0, e, <<>>, NoPanic, NoRet)
            /\ Returns
    /\ calls' = <<>>
    /\ UNCHANGED <<heap, pool, rendered, results, ncalls>>

\* func ThrowOnErr[T any](val T, err error) T
ThrowOnErr(T, v, e) ==
    /\ LibCall
    /\ LET w == WithCause(heap, v, e, <<>>)
       IN  /\ heap' = w.heap
           /\ IF w.err # NilErr
              THEN /\ lastOp' = OpRecord("ThrowOnErr", T, v, e, <<>>,
                                         valErr(T, w.val, w.err), NoRet)
                   /\ Panics(valErr(T, w.val, w.err))
              ELSE /\ lastOp' = OpRecord("ThrowOnErr", T, v, e, <<>>, NoPanic,
                                         Ret(w.val, NilErr))
                   /\ Returns
    /\ calls' = <<>>
    /\ UNCHANGED <<pool, rendered, results, ncalls>>

\* Must raising the library's own error-only signal instead of the bare error
MustAsSignal(v, e) ==
    /\ LibCall
    /\ IF e # NilErr
       THEN /\ lastOp' = OpRecord("Must", "", v, e, <<>>, err_(e), NoRet)
            /\ Panics(err_(e))
       ELSE /\ lastOp' = OpRecord("Must", "", v, e, <<>>, NoPanic, Ret(v, NilErr))
            /\ Returns
    /\ calls' = <<>>
    /\ UNCHANGED <<heap, pool, rendered, results, ncalls>>

\* func Must[T any](val T, err error) T
Must(v, e) ==
    /\ LibCall
    /\ IF e # NilErr
       THEN /\ lastOp' = OpRecord("Must", "", v, e, <<>>, PanicOn(e), NoRet)
            /\ Panics(PanicOn(e))
       ELSE /\ lastOp' = OpRecord("Must", "", v, e, <<>>, NoPanic, Ret(v, NilErr))
            /\ Returns
    /\ calls' = <<>>
    /\ UNCHANGED <<heap, pool, rendered, results, ncalls>>

\* func Must_(err error)
Must_(e) ==
    /\ LibCall
    /\ IF e # NilErr
       THEN /\ lastOp' = OpRecord("Must_", "", 0, e, <<>>, PanicOn(e), NoRet)
            /\ Panics(PanicOn(e))
       ELSE /\ lastOp' = OpRecord("Must_", "", 0, e, <<>>, NoPanic, NoRet)
            /\ Returns
    /\ calls' = <<>>
    /\ UNCHANGED <<heap, pool, rendered, results, ncalls>>

-----------------------------------------------------------------------------
(* package errhandling: the side-effect combinators; values handed to the     *)
(* callback f are appended to calls                                            *)

\* OnErr(val, err)(f)
OnErr(v, e) ==
    /\ LibCall
    /\ calls' = IF e # NilErr THEN <<Ret(0, e)>> ELSE <<>>
    /\ lastOp' = OpRecord("OnErr", "", v, e, <<>>, NoPanic, Ret(v, e))
    /\ Returns
    /\ UNCHANGED <<heap, pool, rendered, results, ncalls>>

\* OnErr_(err)(f)
OnErr_(e) ==
    /\ LibCall
    /\ calls' = IF e # NilErr THEN <<Ret(0, e)>> ELSE <<>>
    /\ lastOp' = OpRecord("OnErr_", "", 0, e, <<>>, NoPanic, NoRet)
    /\ Returns
    /\ UNCHANGED <<heap, pool, rendered, results, ncalls>>

\* OnSuccess(val, err)(f): neither branch calls f
OnSuccess(v, e) ==
    /\ LibCall
    /\ calls' = IF e # NilErr THEN <<>> ELSE <<>>
    /\ lastOp' = OpRecord("OnSuccess", "", v, e, <<>>, NoPanic, Ret(v, e))
    /\ Returns
    /\ UNCHANGED <<heap, pool, rendered, results, ncalls>>

\* OnSuccess_(err)(f)
OnSuccess_(e) ==
    /\ LibCall
    /\ calls' = IF e # NilErr THEN <<>> ELSE <<NoRet>>
    /\ lastOp' = OpRecord("OnSuccess_", "", 0, e, <<>>, NoPanic, NoRet)
    /\ Returns
    /\ UNCHANGED <<heap, pool, rendered, results, ncalls>>

Next ==
    \/ \E b \in Boundaries : CallFunc(b)
    \/ FuncReturn
    \/ DeferredCatch
    \/ DeferredCatch_
    \/ Unwind
    \/ \E T \in Types, v \in Vals, e \in ErrInputs : Return(T, v, e)
    \/ \E e \in ErrInputs : Return_(e)
    \/ \E T \in Types, v \in Vals, e \in ErrInputs : Throw(T, v, e)
    \/ \E e \in ErrInputs : Throw_(e)
    \/ \E T \in Types, v \in Vals, e \in ErrInputs : ThrowOnErr(T, v, e)
    \/ \E v \in Vals, e \in ErrInputs : Must(v, e)
    \/ \E e \in ErrInputs : Must_(e)
    \/ \E v \in Vals, e \in ErrInputs : OnErr(v, e)
    \/ \E e \in ErrInputs : OnErr_(e)
    \/ \E v \in Vals, e \in ErrInputs : OnSuccess(v, e)
    \/ \E e \in ErrInputs : OnSuccess_(e)

Spec == Init /\ [][Next]_vars

-----------------------------------------------------------------------------
(* Caller code that builds and renders chains *)

EntryOf(e) == CHOOSE x \in {pool[i] : i \in DOMAIN pool} : x.err = e

\* the variadic cause arguments caller code can pass
CauseInputs == {<<>>} \cup {<<c>> : c \in ErrInputs}

\* the history of a node built over err as cause: err's history extended when
\* err is a chain node of the pool, a new history otherwise
Extend(e, err, msg) ==
    IF IsError(err)
    THEN Entry(e, Append(EntryOf(err).hist, msg), EntryOf(err).base, EntryOf(err).leaf)
    ELSE Entry(e, <<msg>>, e, <<err>>)

\* e := New(msg, cause...)
NewCall(msg, cause) ==
    /\ Statement
    /\ rendered = NoRender
    /\ Len(pool) < MaxPool
    /\ LET n == New(heap, msg, cause)
       IN  /\ heap' = n.heap
           /\ pool' = Append(pool,
                  IF Len(cause) = 0 THEN Entry(n.err, <<msg>>, n.err, <<>>)
                  ELSE Extend(n.err, cause[1], msg))
           /\ lastOp' = OpRecord("New", "", 0,
                                 IF Len(cause) = 0 THEN NilErr ELSE cause[1],
                                 msg, NoPanic, Ret(0, n.err))
    /\ calls' = <<>>
    /\ UNCHANGED <<rendered, stack, panicking, status, results, ncalls>>

\* the pool after a decoration of err that gave e (nothing is kept of a nil
\* result; over an outside error the chain starts at the inner node)
Decorated(h, e, err, msg) ==
    IF e = NilErr THEN pool
    ELSE IF IsError(err) THEN Append(pool, Extend(e, err, msg))
    ELSE Append(pool, Entry(e, <<err.msg, msg>>, h[e.Cause], <<>>))

\* v, e := WithCause(val, err)(msg)
WithCauseCall(v, err, msg) ==
    /\ Statement
    /\ rendered = NoRender
    /\ Len(pool) < MaxPool
    /\ LET w == WithCause(heap, v, err, msg)
       IN  /\ heap' = w.heap
           /\ pool' = Decorated(w.heap, w.err, err, msg)
           /\ lastOp' = OpRecord("WithCause", "", v, err, msg, NoPanic,
                                 Ret(w.val, w.err))
    /\ calls' = <<>>
    /\ UNCHANGED <<rendered, stack, panicking, status, results, ncalls>>

\* e := WithCause_(err)(msg)
WithCause_Call(err, msg) ==
    /\ Statement
    /\ rendered = NoRender
    /\ Len(pool) < MaxPool
    /\ LET w == WithCause_(heap, err, msg)
       IN  /\ heap' = w.heap
           /\ pool' = Decorated(w.heap, w.err, err, msg)
           /\ lastOp' = OpRecord("WithCause_", "", 0, err, msg, NoPanic,
                                 Ret(0, w.err))
    /\ calls' = <<>>
    /\ UNCHANGED <<rendered, stack, panicking, status, results, ncalls>>

\* s := pool[i].err.Error(), the last statement of a run
ErrorCall(i) ==
    /\ Statement
    /\ rendered = NoRender
    /\ rendered' = [op |-> "Error", i |-> i, out |-> Error_Error(heap, pool[i].err)]
    /\ UNCHANGED <<heap, pool, stack, panicking, status, results, lastOp, calls,
                   ncalls>>

\* s := pool[i].err.(Error).PrintableError(), the last statement of a run
PrintableErrorCall(i) ==
    /\ Statement
    /\ rendered = NoRender
    /\ rendered' = [op |-> "PrintableError", i |-> i,
                    out |-> PrintableError(heap, pool[i].err)]
    /\ UNCHANGED <<heap, pool, stack, panicking, status, results, lastOp, calls,
                   ncalls>>

NextChain ==
    \/ \E m \in Messages, c \in CauseInputs : NewCall(m, c)
    \/ \E v \in Vals, e \in ErrInputs, m \in Messages : WithCauseCall(v, e, m)
    \/ \E e \in ErrInputs, m \in Messages : WithCause_Call(e, m)
    \/ \E i \in DOMAIN pool : ErrorCall(i)
    \/ \E i \in DOMAIN pool : PrintableErrorCall(i)

SpecChain == InitChain /\ [][NextChain]_vars

-----------------------------------------------------------------------------
(* Properties of the boundaries *)

Active == lastOp.active
Innermost == Active[Len(Active)]
Raised == lastOp.payload # NoPanic
OnStack(id) == \E i \in DOMAIN stack : stack[i].id = id
Finished(id) == \E i \in DOMAIN results : results[i].id = id
ResultOf(id) == CHOOSE r \in {results[i] : i \in DOMAIN results} : r.id = id
Tripped(r) == r.recovered # NoPanic /\ r.panic = NoPanic

C1_Case ==
    /\ lastOp.op = "Return"
    /\ Len(Active) = 1
    /\ Innermost.boundary = "Catch"
    /\ Innermost.T = lastOp.T
    /\ ~Innermost.errNil

\* C1: a Return(v, e) at any depth beneath exactly one active Catch(&outV, &outE)
\* of the same value type suspends the raising scope until that Catch runs, and
\* the governing function then returns normally with outV = v and outE = e.
C1_RoundTrip ==
    C1_Case =>
        IF OnStack(Innermost.id)
        THEN /\ status = "panicking"
             /\ panicking.kind = "valErr"
             /\ panicking.val = lastOp.val
             /\ panicking.err = lastOp.err
        ELSE /\ Finished(Innermost.id)
             /\ ~OnStack(lastOp.scope)
             /\ Tripped(ResultOf(Innermost.id))
             /\ ResultOf(Innermost.id).outV = lastOp.val
             /\ ResultOf(Innermost.id).outE = lastOp.err

C1_Witness ==
    /\ C1_Case
    /\ IsError(lastOp.err)
    /\ lastOp.val # 0
    /\ lastOp.depth > Innermost.pos
    /\ Finished(Innermost.id)
    /\ status = "running"

\* C2: a Catch_(&outE) reached by the error-only signal of Return_(e), or of
\* Throw_(e) with e non-nil, writes e into outE and returns normally.
C2_ErrorOnlyCaught ==
    ( /\ lastOp.op \in {"Return_", "Throw_"}
      /\ Raised
      /\ Len(Active) >= 1
      /\ Innermost.boundary = "Catch_"
      /\ ~Innermost.errNil
      /\ Finished(Innermost.id) ) =>
        /\ Tripped(ResultOf(Innermost.id))
        /\ ResultOf(Innermost.id).outE = lastOp.err

\* the innermost boundary was given a signal of a shape it knows
Recognised ==
    \/ Innermost.boundary = "Catch" /\ lastOp.payload.kind = "_err"
    \/ Innermost.boundary = "Catch" /\ lastOp.payload.kind = "valErr"
           /\ lastOp.payload.T = Innermost.T
    \/ Innermost.boundary = "Catch_" /\ lastOp.payload.kind = "_err"

\* C3: with two or more boundaries active at a raise, the innermost one
\* consumes the signal and takes its payload; every outer boundary finishes
\* without seeing a signal and with its output slots untouched.
C3_InnermostOnly ==
    ( /\ lastOp.op \in {"Return", "Return_", "Throw", "Throw_", "ThrowOnErr"}
      /\ Raised
      /\ Len(Active) >= 2
      /\ \A j \in DOMAIN Active : ~Active[j].errNil
      /\ Recognised ) =>
        /\ Finished(Innermost.id) =>
              /\ Tripped(ResultOf(Innermost.id))
              /\ ResultOf(Innermost.id).recovered = lastOp.payload
              /\ ResultOf(Innermost.id).outE = lastOp.payload.err
        /\ \A j \in 1..(Len(Active) - 1) :
              Finished(Active[j].id) =>
                  /\ ResultOf(Active[j].id).incoming = NoPanic
                  /\ ResultOf(Active[j].id).recovered = NoPanic
                  /\ ResultOf(Active[j].id).outV = 0
                  /\ ResultOf(Active[j].id).outE = NilErr

\* C4: a Catch or Catch_ given a nil error address always panics with
\* ERROR_IN_CATCH, signal in flight or not, without calling recover and
\* without writing an output slot.
C4_NilErrAddr ==
    \A i \in DOMAIN results :
        (results[i].boundary # "none" /\ results[i].errNil) =>
            /\ results[i].panic = PanicOn(ERROR_IN_CATCH)
            /\ results[i].recovered = NoPanic
            /\ results[i].outV = 0
            /\ results[i].outE = NilErr

C4_Witness ==
    \E i \in DOMAIN results :
        /\ results[i].boundary = "Catch"
        /\ results[i].errNil
        /\ results[i].incoming.kind = "valErr"
        /\ results[i].incoming.T = results[i].T

\* C5: Must(v, e) and Must_(e) with e non-nil end the unit of work whatever
\* boundaries are active: every activation ends panicking, none is tripped;
\* with e nil nothing is raised and Must returns v.
C5_MustTerminates ==
    lastOp.op \in {"Must", "Must_"} =>
        IF lastOp.err # NilErr
        THEN /\ status \in {"panicking", "crashed"}
             /\ \A i \in (lastOp.mark + 1)..Len(results) :
                    results[i].panic # NoPanic /\ ~Tripped(results[i])
        ELSE /\ ~Raised
             /\ lastOp.op = "Must" => lastOp.ret = Ret(lastOp.val, NilErr)
             /\ Len(results) = lastOp.mark => status \in {"running", "returning"}

C5_Witness ==
    /\ lastOp.op = "Must"
    /\ IsError(lastOp.err)
    /\ status = "crashed"
    /\ \E i \in (lastOp.mark + 1)..Len(results) :
           /\ results[i].boundary = "Catch"
           /\ ~results[i].errNil
           /\ results[i].recovered # NoPanic
    /\ \E i \in (lastOp.mark + 1)..Len(results) :
           /\ results[i].boundary = "Catch_"
           /\ ~results[i].errNil

\* C6: OnSuccess(value, err)(f) calls f(value) exactly once when err is nil and
\* never otherwise, and returns (value, err); OnSuccess_(err)(f) runs f iff
\* err is nil.
C6_OnSuccess ==
    /\ lastOp.op = "OnSuccess" =>
           /\ lastOp.ret = Ret(lastOp.val, lastOp.err)
           /\ IF lastOp.err = NilErr
              THEN Len(calls) = 1 /\ calls[1].val = lastOp.val
              ELSE calls = <<>>
    /\ lastOp.op = "OnSuccess_" =>
           Len(calls) = (IF lastOp.err = NilErr THEN 1 ELSE 0)

\* C7: Throw / ThrowOnErr with a non-nil err raises a signal whose error is the
\* decoration of err with the empty message: a chain node with message "" and
\* err (or a root node with err's text, for an outside error) as cause; with
\* err nil nothing is raised and value is returned.
C7_ThrowDecorates ==
    lastOp.op \in {"Throw", "ThrowOnErr"} =>
        IF lastOp.err # NilErr
        THEN /\ lastOp.payload.kind = "valErr"
             /\ lastOp.payload.val = lastOp.val
             /\ IsError(lastOp.payload.err)
             /\ lastOp.payload.err.msg = <<>>
             /\ lastOp.payload.err.Cause # 0
             /\ IF IsError(lastOp.err)
                THEN heap[lastOp.payload.err.Cause] = lastOp.err
                ELSE /\ IsError(heap[lastOp.payload.err.Cause])
                     /\ heap[lastOp.payload.err.Cause].Cause = 0
                     /\ heap[lastOp.payload.err.Cause].msg = lastOp.err.msg
        ELSE ~Raised /\ lastOp.ret = Ret(lastOp.val, NilErr)

-----------------------------------------------------------------------------
(* Properties of the chains *)

\* the chain nodes of e, from e down to the last chain node of its cause links
RECURSIVE ChainNodes(_, _)
ChainNodes(h, e) ==
    IF e.Cause # 0 /\ IsError(h[e.Cause])
    THEN <<e>> \o ChainNodes(h, h[e.Cause])
    ELSE <<e>>

\* only chain nodes: the first node of the chain was built without a cause
OverRoot(ent) == ent.leaf = <<>>

\* C8: after k >= 1 decorations (WithCause or New(msg, cause)) over an initial
\* root node r, the root of the top node and of every node of the chain is r:
\* the same cell, holding r with r's message.
C8_RootTransitive ==
    \A i \in DOMAIN pool :
        OverRoot(pool[i]) =>
            LET ns == ChainNodes(heap, pool[i].err)
                r == pool[i].base
            IN  /\ Len(ns) = Len(pool[i].hist)
                /\ ns[Len(ns)] = r
                /\ r.msg = pool[i].hist[1]
                /\ \A j \in DOMAIN ns :
                       /\ ns[j].RootCause = r.RootCause
                       /\ heap[ns[j].RootCause] = r

C8_Witness ==
    \E i \in DOMAIN pool :
        /\ OverRoot(pool[i])
        /\ Len(pool[i].hist) = 3
        /\ pool[i].hist[1] # pool[i].hist[3]

\* messages joined by " -> ", first message first
RECURSIVE JoinArrow(_)
JoinArrow(hist) ==
    IF Len(hist) = 1 THEN hist[1]
    ELSE JoinArrow(SubSeq(hist, 1, Len(hist) - 1)) \o <<" -> ">> \o hist[Len(hist)]

\* C9: Error() of a root node is its message; Error() of a chain of chain
\* nodes with messages m1 (root) ... mk (top) is "m1 -> m2 -> ... -> mk".
C9_ShortForm ==
    (rendered.op = "Error" /\ OverRoot(pool[rendered.i])) =>
        rendered.out = JoinArrow(pool[rendered.i].hist)

C9_Witness ==
    /\ rendered.op = "Error"
    /\ OverRoot(pool[rendered.i])
    /\ Len(pool[rendered.i].hist) = 3
    /\ pool[rendered.i].hist[1] # pool[rendered.i].hist[3]

\* the "caused by" lines of the messages hist[i] down to hist[1]
RECURSIVE CausedBy(_, _)
CausedBy(hist, i) ==
    IF i = 0 THEN <<>>
    ELSE <<"\n", "\t", "caused by: ">> \o hist[i] \o CausedBy(hist, i - 1)

ExpectedReport(hist) ==
    <<"error:", "\n", "\t">> \o hist[Len(hist)]
        \o <<"\n", "\n", "Root cause:", "\n", "\t">> \o hist[1]
        \o <<"\n", "\n", "Full error trace:", "\n", "\t">> \o hist[Len(hist)]
        \o CausedBy(hist, Len(hist) - 1)

Count(str, tok) == Cardinality({i \in DOMAIN str : str[i] = tok})

\* C10: PrintableError() of a chain of chain nodes with messages mk (top) down
\* to m1 (root) is the template with error line mk, root-cause line m1 and a
\* trace of k lines: mk, then one "caused by: " line per cause down to the
\* root, with no trailing newline.
C10_FullReport ==
    (rendered.op = "PrintableError" /\ OverRoot(pool[rendered.i])) =>
        LET hist == pool[rendered.i].hist
        IN  /\ rendered.out = ExpectedReport(hist)
            /\ Count(rendered.out, "caused by: ") = Len(hist) - 1
            /\ Count(rendered.out, "\n") = 7 + Len(hist) - 1
            /\ rendered.out[Len(rendered.out)] # "\n"

C10_Witness ==
    /\ rendered.op = "PrintableError"
    /\ OverRoot(pool[rendered.i])
    /\ Len(pool[rendered.i].hist) = 3
    /\ pool[rendered.i].hist[1] # pool[rendered.i].hist[3]

\* C11: WithCause(value, err)(message) returns value unchanged and: for err
\* nil, a nil error and no new node; for err a chain node, a new node with the
\* message, err as cause and err's root; for an outside err, a node with the
\* message whose cause is a fresh root node carrying err's text, so that the
\* full report names that text as root cause and in one "caused by: " line.
C11_Decorate ==
    lastOp.op = "WithCause" =>
        LET e == lastOp.ret.err
            c == heap[e.Cause]
        IN  /\ lastOp.ret.val = lastOp.val
            /\ IF lastOp.err = NilErr
               THEN e = NilErr /\ Len(heap) = lastOp.heapLen
               ELSE /\ IsError(e)
                    /\ e.msg = lastOp.msg
                    /\ e.Cause > lastOp.heapLen
                    /\ IF IsError(lastOp.err)
                       THEN /\ c = lastOp.err
                            /\ e.RootCause = lastOp.err.RootCause
                       ELSE /\ IsError(c)
                            /\ c.Cause = 0
                            /\ c.msg = lastOp.err.msg
                            /\ c.RootCause > lastOp.heapLen
                            /\ heap[c.RootCause] = c
                            /\ e.RootCause = c.RootCause
                            /\ (rendered.op = "PrintableError"
                                  /\ pool[rendered.i].err = e) =>
                                   /\ rendered.out =
                                        ExpectedReport(<<lastOp.err.msg, lastOp.msg>>)
                                   /\ Count(rendered.out, "caused by: ") = 1

C11_Witness ==
    /\ lastOp.op = "WithCause"
    /\ lastOp.err \in ForeignErrs
    /\ lastOp.val # 0
    /\ lastOp.msg # <<>>
    /\ rendered.op = "PrintableError"
    /\ pool[rendered.i].err = lastOp.ret.err

\* a Catch with a non-nil error address was reached by a payload that is
\* neither a valErr of its value type nor an error-only signal
Unrecognised(r) ==
    /\ r.boundary = "Catch"
    /\ ~r.errNil
    /\ r.incoming # NoPanic
    /\ ~(r.incoming.kind = "valErr" /\ r.incoming.T = r.T)
    /\ r.incoming.kind # "_err"

IsChainPanic(p) == p.kind = "error" /\ IsError(p.err)

\* the messages, root first, of a chain node that can be panicked on
HistOf(e) == IF e = ERROR_IN_CATCH THEN <<ERROR_IN_CATCH_MSG>> ELSE EntryOf(e).hist

\* no boundary is left to handle what results[i] re-raised
NoOuterBoundary(i) ==
    /\ \A j \in DOMAIN stack : stack[j].boundary = "none"
    /\ \A j \in (i + 1)..Len(results) : results[j].boundary = "none"

C13_ForeignRoot ==
    ( /\ rendered.op = "PrintableError"
      /\ Len(pool[rendered.i].hist) = 1
      /\ Len(pool[rendered.i].leaf) = 1
      /\ pool[rendered.i].leaf[1] \in ForeignErrs ) =>
        LET msg == pool[rendered.i].hist[1]
            text == pool[rendered.i].leaf[1].msg
        IN  rendered.out =
                <<"error:", "\n", "\t">> \o msg
                    \o <<"\n", "\n", "Root cause:", "\n", "\t">> \o text
                    \o <<"\n", "\n", "Full error trace:", "\n", "\t">> \o msg
                    \o <<"\n", "\t", "caused by: ">> \o text

====
